---- MODULE Spec2Model ----
(***************************************************************************)
(* A model of the wbmath library: the numeric helpers of package wbmath    *)
(* (src/wbmath.go), the value-semantics Fraction type of package fraction  *)
(* (src/fraction/fraction.go, the revision that starts at line 267:        *)
(* numerator, denominator, isNegative) and the slice-backed Vector of      *)
(* package vector (src/vector/vector.go, the revision that starts at line  *)
(* 192).                                                                   *)
(*                                                                         *)
(* A caller holds one Fraction value f.  Every mutating call is modelled   *)
(* as f = f.Op(args); the observers Evaluate and String leave f alone and  *)
(* record what they return.  The receiver before the last call (pre), the  *)
(* arguments of the last call (n, d, arg, other) and its error result (err) are *)
(* kept so that a property of a call can be stated on the state after it.  *)
(*                                                                         *)
(* Spec is the client that assigns every result.  The other specifications *)
(* are other clients of the same library: SpecDiscard calls the methods as *)
(* expression statements, SpecEmpty uses the Fraction{} that comes with an *)
(* error, SpecParse calls NewFromString, SpecWrap calls New over the whole *)
(* range of a narrow int, SpecMath runs the loops of Gcd and PowInt step   *)
(* by step, and SpecVector calls the Vector methods.                       *)
(***************************************************************************)
EXTENDS Integers, Sequences, FiniteSets, TLC

\* Bounds of the model.
MaxArg == 7     \* integer arguments of New and NewFromNumber: -MaxArg..MaxArg
MaxInt == 2     \* integer operand of MultiplyInt, AddInt, ...: -MaxInt..MaxInt
MaxOther == 2   \* components of the second operand of a binary operation
MaxMag == 10    \* arithmetic results stay within -MaxMag..MaxMag (no overflow)
MaxExp == 3     \* exponents and root degrees: 0..MaxExp
MaxMant == 12   \* decimal digits (as a number) of a float64 argument
MaxPlaces == 2  \* fractional digits of a float64 argument

VARIABLES
    f,      \* the caller's Fraction: the result of the last mutating call
    pre,    \* the receiver of the last mutating call, before the call
    other,  \* the Fraction argument of the last call (binary operations)
    n,      \* first integer argument of the last call
    d,      \* second integer argument of the last call
    arg,    \* the numeric argument of the last NewFromNumber call
    op,     \* name of the last constructor or mutating call, "init" before any
    err,    \* TRUE iff the last call returned a non-nil error
    obs,    \* the observer called on f since the last mutating call
    val,    \* what Evaluate returned, when obs = "Evaluate"
    str,    \* what String returned, when obs = "String"
    ret,    \* the Fraction the last constructor or mutating call returned
    text,   \* the string argument of NewFromString
    frame,  \* the locals of the running Gcd or PowInt call
    mem,    \* the backing arrays of the client's Vectors v and other
    memPre, \* the backing arrays before the last Vector call
    vcall   \* the last Vector call: its name, arguments and result

fracVars == <<f, pre, other, n, d, arg, op, err, obs, val, str, ret>>

vars == <<f, pre, other, n, d, arg, op, err, obs, val, str, ret, text, frame, mem,
          memPre, vcall>>

---------------------------------------------------------------------------
\* Go's integer operators: / truncates toward zero, % takes the sign of the
\* dividend.  Division by zero panics; callers below test for it first.

Abs(value) == IF value < 0 THEN -value ELSE value

GoDiv(a, b) ==
    IF (a < 0) = (b < 0) THEN Abs(a) \div Abs(b) ELSE -(Abs(a) \div Abs(b))

GoMod(a, b) == a - b * GoDiv(a, b)

---------------------------------------------------------------------------
\* package wbmath

RECURSIVE GcdLoop(_, _)
GcdLoop(a, b) == IF b # 0 THEN GcdLoop(b, GoMod(a, b)) ELSE a

Gcd(a, b) == IF a = 0 \/ b = 0 THEN a + b ELSE GcdLoop(a, b)

RECURSIVE PowIntLoop(_, _, _)
PowIntLoop(result, base, exponent) ==
    IF exponent > 0
    THEN LET r2 == IF exponent % 2 # 0 THEN result * base ELSE result
             e2 == exponent \div 2
             b2 == IF e2 # 0 THEN base * base ELSE base
         IN  PowIntLoop(r2, b2, e2)
    ELSE result

PowInt(base, exponent) == PowIntLoop(1, base, exponent)

\* The integer r with r^degree <= value < (r+1)^degree (value >= 0, degree >= 1):
\* the integer part of the real root that math.Pow approximates.
RECURSIVE FloorRootFrom(_, _, _)
FloorRootFrom(r, value, degree) ==
    IF PowInt(r + 1, degree) <= value THEN FloorRootFrom(r + 1, value, degree) ELSE r

FloorRoot(value, degree) == FloorRootFrom(0, value, degree)

\* math.Round(math.Pow(float64(value), 1.0/float64(degree))) together with whether
\* math.Pow's result is within 0.00001 of it.  Result: [int |-> BOOLEAN, root |-> Int].
\*   degree = 0: the exponent is +Inf; Pow gives 1 for |value| = 1, 0 for value = 0
\*               and +Inf otherwise, and Inf - Inf is NaN, which fails the <= test.
\*   degree = 1: Pow(x, 1) = x.
\*   value < 0, degree >= 2: Pow of a negative base to a non-integer power is NaN.
\*   otherwise: for value <= 10^4 and degree <= 5 a value that is no perfect power
\*               has a root further than 0.00001 from every integer, and the root
\*               of a perfect power is computed to within 1e-15 of the integer.
RootTest(value, degree) ==
    IF degree = 0
    THEN IF Abs(value) = 1 THEN [int |-> TRUE, root |-> 1]
         ELSE IF value = 0 THEN [int |-> TRUE, root |-> 0]
         ELSE [int |-> FALSE, root |-> 0]
    ELSE IF degree = 1 THEN [int |-> TRUE, root |-> value]
    ELSE IF value < 0 THEN [int |-> FALSE, root |-> 0]
    ELSE LET r == FloorRoot(value, degree)
         IN  [int |-> PowInt(r, degree) = value, root |-> r]

IsNthRootInt(value, degree) == RootTest(value, degree).int

---------------------------------------------------------------------------
\* package fraction: the type and its zero value Fraction{}

Frac(num, den, neg) == [numerator |-> num, denominator |-> den, isNegative |-> neg]

ZeroFraction == Frac(0, 0, FALSE)

\* A (Fraction, error) result pair.
Ret(fr, e) == [frac |-> fr, err |-> e]

\* New without the zero-denominator test.
New_Unchecked(numerator, denominator) ==
    Ret(Frac(Abs(numerator), Abs(denominator), numerator * denominator < 0), FALSE)

\* New taking the sign from the numerator alone.
New_SignOfNumerator(numerator, denominator) ==
    IF denominator = 0
    THEN Ret(ZeroFraction, TRUE)
    ELSE Ret(Frac(Abs(numerator), Abs(denominator), numerator < 0), FALSE)

New(numerator, denominator) ==
    IF denominator = 0
    THEN Ret(ZeroFraction, TRUE)
    ELSE Ret(Frac(Abs(numerator), Abs(denominator), numerator * denominator < 0), FALSE)

\* A numeric argument of the generic NewFromNumber[T int | float64].  An int is
\* its value; a float64 is the decimal (-1)^neg * mant / 10^places it denotes,
\* with no trailing zero among its fractional digits.
IntNum(k) == [type |-> "int", int |-> k, neg |-> FALSE, mant |-> 0, places |-> 0]

FloatNum(neg, mant, places) ==
    [type |-> "float64", int |-> 0, neg |-> neg, mant |-> mant, places |-> places]

NoNum == IntNum(0)

\* fmt's %d and strconv's digits, one character per element.
DigitChars == <<"0", "1", "2", "3", "4", "5", "6", "7", "8", "9">>

RECURSIVE ItoaChars(_)
ItoaChars(k) ==
    IF k < 10 THEN <<DigitChars[k + 1]>>
    ELSE Append(ItoaChars(k \div 10), DigitChars[(k % 10) + 1])

RECURSIVE Concat(_)
Concat(chars) == IF chars = <<>> THEN "" ELSE Head(chars) \o Concat(Tail(chars))

\* fmt.Sprintf("%d", k)
FmtInt(k) == IF k < 0 THEN "-" \o Concat(ItoaChars(-k)) ELSE Concat(ItoaChars(k))

RECURSIVE PadZeros(_, _)
PadZeros(chars, width) ==
    IF Len(chars) < width THEN PadZeros(<<"0">> \o chars, width) ELSE chars

\* strconv.FormatFloat(num, 'f', -1, 64): the shortest decimal text of the value.
FormatFloat(num) ==
    LET scale == PowInt(10, num.places)
    IN  (IF num.neg THEN <<"-">> ELSE <<>>)
        \o ItoaChars(num.mant \div scale)
        \o (IF num.places > 0
            THEN <<".">> \o PadZeros(ItoaChars(num.mant % scale), num.places)
            ELSE <<>>)

\* strings.IndexByte(s, c): index from 0 of the first c in s, -1 when there is none.
IndexByte(s, c) ==
    IF \E i \in 1..Len(s) : s[i] = c
    THEN (CHOOSE i \in 1..Len(s) : s[i] = c /\ \A j \in 1..(i - 1) : s[j] # c) - 1
    ELSE -1

NewFromNumber(num) ==
    IF num.type = "int"
    THEN Frac(num.int, 1, FALSE)
    ELSE LET s == FormatFloat(num)
             i == IndexByte(s, ".")
             decimalPlaces == IF i >= 1 THEN Len(s) - i - 1 ELSE 0
         IN  Frac(3, PowInt(10, decimalPlaces), FALSE)

\* Simplify reducing the numerator only.
Simplify_NumeratorOnly(fr) ==
    LET gcd == Gcd(fr.numerator, fr.denominator)
    IN  IF gcd # 0
        THEN Frac(GoDiv(fr.numerator, gcd), fr.denominator, fr.isNegative)
        ELSE fr

\* Simplify storing the reduced components in each other's field.
Simplify_Swapped(fr) ==
    LET gcd == Gcd(fr.numerator, fr.denominator)
    IN  IF gcd # 0
        THEN Frac(GoDiv(fr.denominator, gcd), GoDiv(fr.numerator, gcd), fr.isNegative)
        ELSE fr

Simplify(fr) ==
    LET gcd == Gcd(fr.numerator, fr.denominator)
    IN  IF gcd # 0
        THEN Frac(GoDiv(fr.numerator, gcd), GoDiv(fr.denominator, gcd), fr.isNegative)
        ELSE fr

\* Evaluate's float64 result, before rounding: the quotient p/q when the divisor
\* is not zero, and IEEE's NaN or signed infinity when it is.
Value(kind, p, q) == [kind |-> kind, p |-> p, q |-> q]

NoValue == Value("none", 0, 1)

FloatQuotient(p, q) ==
    IF q # 0 THEN Value("finite", p, q)
    ELSE IF p = 0 THEN Value("NaN", 0, 0)
    ELSE IF p > 0 THEN Value("+Inf", 0, 0)
    ELSE Value("-Inf", 0, 0)

\* Evaluate ignoring the sign flag.
Evaluate_Unsigned(fr) == FloatQuotient(fr.numerator, fr.denominator)

Evaluate(fr) ==
    IF fr.isNegative /\ fr.numerator # 0
    THEN FloatQuotient(-fr.numerator, fr.denominator)
    ELSE FloatQuotient(fr.numerator, fr.denominator)

\* What String returns when the integer division at line 344 panics.
DivideByZeroPanic == "panic: runtime error: integer divide by zero"

\* Lines 339-357 of String: the mixed-number rendering of a Fraction.
Format(fraction) ==
    LET split == fraction.numerator >= fraction.denominator
    IN  IF split /\ fraction.denominator = 0
        THEN DivideByZeroPanic
        ELSE LET wholeNumber ==
                     IF split THEN GoDiv(fraction.numerator, fraction.denominator) ELSE 0
                 numerator ==
                     IF split THEN GoMod(fraction.numerator, fraction.denominator)
                     ELSE fraction.numerator
                 denominator == fraction.denominator
                 result ==
                     IF numerator = 0 THEN FmtInt(wholeNumber)
                     ELSE IF wholeNumber = 0
                          THEN FmtInt(numerator) \o "/" \o FmtInt(denominator)
                          ELSE FmtInt(wholeNumber) \o " " \o FmtInt(numerator)
                               \o "/" \o FmtInt(denominator)
             IN  IF fraction.isNegative THEN "-" \o result ELSE result

\* String rendering the stored components as they are.
String_NoSimplify(fr) == Format(fr)

String(fr) == Format(Simplify(fr))

\* The accessors the tests call: the stored component and whether the receiver
\* is a Fraction at all (a Fraction value always is).
Numerator(fr) == <<fr.numerator, TRUE>>

Denominator(fr) == <<fr.denominator, TRUE>>

\* Multiply calling the product negative when either operand is.
Multiply_EitherNegative(fr, o) ==
    Frac(fr.numerator * o.numerator, fr.denominator * o.denominator,
         fr.isNegative \/ o.isNegative)

Multiply(fr, o) ==
    LET numerator == fr.numerator * o.numerator
        denominator == fr.denominator * o.denominator
        isNegative ==
            IF fr.isNegative /\ o.isNegative THEN FALSE
            ELSE IF fr.isNegative \/ o.isNegative THEN TRUE
            ELSE FALSE
    IN  Frac(numerator, denominator, isNegative)

MultiplyInt(fr, value) == Multiply(fr, Frac(Abs(value), 1, value < 0))

Add(fr, o) ==
    LET signSelf == IF fr.isNegative THEN -1 ELSE 1
        signOther == IF o.isNegative THEN -1 ELSE 1
        numerator == signSelf * fr.numerator * o.denominator
                     + signOther * o.numerator * fr.denominator
        denominator == fr.denominator * o.denominator
    IN  Frac(Abs(numerator), denominator, numerator * denominator < 0)

\* AddInt adding 0/1 whatever the value, as an earlier revision did.
AddInt_IgnoresValue(fr, value) == Add(fr, Frac(0, 1, fr.isNegative))

AddInt(fr, value) == Add(fr, Frac(Abs(value), 1, value < 0))

\* Subtract on the magnitudes alone, as it was before the sign flag was used.
Subtract_Unsigned(fr, o) ==
    LET numerator == fr.numerator * o.denominator - o.numerator * fr.denominator
        denominator == fr.denominator * o.denominator
    IN  Frac(Abs(numerator), denominator, numerator * denominator < 0)

Subtract(fr, o) ==
    LET signSelf == IF fr.isNegative THEN -1 ELSE 1
        signOther == IF o.isNegative THEN -1 ELSE 1
        numerator == signSelf * fr.numerator * o.denominator
                     - signOther * o.numerator * fr.denominator
        denominator == fr.denominator * o.denominator
    IN  Frac(Abs(numerator), denominator, numerator * denominator < 0)

SubtractInt(fr, value) == Subtract(fr, Frac(Abs(value), 1, value < 0))

\* Divide returning a positive Fraction whatever the operands' signs.
Divide_Positive(fr, o) ==
    Frac(fr.numerator * o.denominator, fr.denominator * o.numerator, FALSE)

Divide(fr, o) ==
    LET isNegative == (fr.isNegative /\ ~o.isNegative) \/ (~fr.isNegative /\ o.isNegative)
    IN  Frac(fr.numerator * o.denominator, fr.denominator * o.numerator, isNegative)

\* DivideInt passing the signed value as the numerator, without a sign flag.
DivideInt_SignedNumerator(fr, value) ==
    IF value = 0
    THEN Ret(ZeroFraction, TRUE)
    ELSE Ret(Divide(fr, Frac(value, 1, FALSE)), FALSE)

DivideInt(fr, value) ==
    IF value = 0
    THEN Ret(ZeroFraction, TRUE)
    ELSE Ret(Divide(fr, Frac(Abs(value), 1, value < 0)), FALSE)

\* Pow keeping the receiver's sign whatever the exponent.
Pow_KeepsSign(fr, exponent) ==
    Frac(PowInt(fr.numerator, exponent), PowInt(fr.denominator, exponent), fr.isNegative)

Pow(fr, exponent) ==
    LET numerator == PowInt(fr.numerator, exponent)
        denominator == PowInt(fr.denominator, exponent)
        isNegative == fr.isNegative /\ exponent % 2 # 0
    IN  Frac(numerator, denominator, isNegative)

NthRoot(fr, degree) ==
    IF IsNthRootInt(fr.numerator, degree) /\ IsNthRootInt(fr.denominator, degree)
    THEN Frac(RootTest(fr.numerator, degree).root,
              RootTest(fr.denominator, degree).root, FALSE)
    ELSE Frac(fr.numerator, fr.denominator, FALSE)

---------------------------------------------------------------------------
\* The calls a client program makes.

Args == -MaxArg..MaxArg

Ints == -MaxInt..MaxInt

Exps == 0..MaxExp

\* float64 arguments: the decimals with at most MaxPlaces fractional digits.
Floats ==
    {x \in {FloatNum(neg, mant, places) :
                neg \in BOOLEAN, mant \in 0..MaxMant, places \in 0..MaxPlaces} :
        /\ x.places = 0 \/ x.mant % 10 # 0
        /\ x.neg => x.mant > 0}

\* Second operands: what the constructors return for small arguments.
Others ==
    {New(a, b).frac : a \in -MaxOther..MaxOther, b \in (-MaxOther..MaxOther) \ {0}}
    \cup {NewFromNumber(IntNum(k)) : k \in -MaxOther..MaxOther}

\* The native int range, scaled down: a call whose operands or result leave it
\* overflows, which the library leaves undefined.
InRange(fr) ==
    /\ fr.numerator \in -MaxMag..MaxMag
    /\ fr.denominator \in -MaxMag..MaxMag

\* A Fraction has been obtained from a call that returned no error.
Constructed == op # "init" /\ ~err

\* No Gcd or PowInt call is running.
NoFrame ==
    [fn |-> "none", args |-> <<0, 0>>, a |-> 0, b |-> 0, base |-> 0, exponent |-> 0,
     result |-> 0, steps |-> 0, pc |-> "none"]

\* The client has made no Vector yet, and no Vector call.
NoMem == [v |-> <<>>, other |-> <<>>]

NoVCall ==
    [name |-> "none", arg |-> "none", offset |-> 0, ret |-> "none", product |-> 0,
     panic |-> FALSE]

\* The state after f = <name>(...) returned (result, e).
Returned(name, receiver, result, e, o, a, b, x) ==
    /\ f' = result
    /\ ret' = result
    /\ pre' = receiver
    /\ other' = o
    /\ n' = a
    /\ d' = b
    /\ arg' = x
    /\ op' = name
    /\ err' = e
    /\ obs' = "none"
    /\ val' = NoValue
    /\ str' = ""
    /\ UNCHANGED <<text, frame, mem, memPre, vcall>>

\* The caller's Fraction variables before any call.
InitFraction ==
    /\ f = ZeroFraction
    /\ pre = ZeroFraction
    /\ other = ZeroFraction
    /\ n = 0
    /\ d = 0
    /\ arg = NoNum
    /\ op = "init"
    /\ err = FALSE
    /\ obs = "none"
    /\ val = NoValue
    /\ str = ""
    /\ ret = ZeroFraction

\* No Vector yet.
InitVector ==
    /\ mem = NoMem
    /\ memPre = NoMem
    /\ vcall = NoVCall

Init ==
    /\ InitFraction
    /\ text = <<>>
    /\ frame = NoFrame
    /\ InitVector

\* The client first obtains its Fraction from a constructor.
OpNew ==
    /\ op = "init"
    /\ \E a \in Args, b \in Args :
        Returned("New", ZeroFraction, New(a, b).frac, New(a, b).err,
                 ZeroFraction, a, b, NoNum)

OpNewFromNumberInt ==
    /\ op = "init"
    /\ \E k \in Args :
        Returned("NewFromNumber", ZeroFraction, NewFromNumber(IntNum(k)), FALSE,
                 ZeroFraction, 0, 0, IntNum(k))

OpNewFromNumberFloat ==
    /\ op = "init"
    /\ \E x \in Floats :
        Returned("NewFromNumber", ZeroFraction, NewFromNumber(x), FALSE,
                 ZeroFraction, 0, 0, x)

OpSimplify ==
    /\ Constructed
    /\ Returned("Simplify", f, Simplify(f), FALSE, ZeroFraction, 0, 0, NoNum)

OpMultiply ==
    /\ Constructed
    /\ \E o \in Others :
        /\ InRange(Multiply(f, o))
        /\ Returned("Multiply", f, Multiply(f, o), FALSE, o, 0, 0, NoNum)

OpMultiplyInt ==
    /\ Constructed
    /\ \E k \in Ints :
        /\ InRange(MultiplyInt(f, k))
        /\ Returned("MultiplyInt", f, MultiplyInt(f, k), FALSE, ZeroFraction, k, 0, NoNum)

OpAdd ==
    /\ Constructed
    /\ \E o \in Others :
        /\ InRange(Add(f, o))
        /\ Returned("Add", f, Add(f, o), FALSE, o, 0, 0, NoNum)

OpAddInt ==
    /\ Constructed
    /\ \E k \in Ints :
        /\ InRange(AddInt(f, k))
        /\ Returned("AddInt", f, AddInt(f, k), FALSE, ZeroFraction, k, 0, NoNum)

OpSubtract ==
    /\ Constructed
    /\ \E o \in Others :
        /\ InRange(Subtract(f, o))
        /\ Returned("Subtract", f, Subtract(f, o), FALSE, o, 0, 0, NoNum)

OpSubtractInt ==
    /\ Constructed
    /\ \E k \in Ints :
        /\ InRange(SubtractInt(f, k))
        /\ Returned("SubtractInt", f, SubtractInt(f, k), FALSE, ZeroFraction, k, 0, NoNum)

OpDivide ==
    /\ Constructed
    /\ \E o \in Others :
        /\ InRange(Divide(f, o))
        /\ Returned("Divide", f, Divide(f, o), FALSE, o, 0, 0, NoNum)

OpDivideInt ==
    /\ Constructed
    /\ \E k \in Ints :
        /\ InRange(DivideInt(f, k).frac)
        /\ Returned("DivideInt", f, DivideInt(f, k).frac, DivideInt(f, k).err,
                    ZeroFraction, k, 0, NoNum)

OpPow ==
    /\ Constructed
    /\ InRange(f)
    /\ \E e \in Exps :
        /\ InRange(Pow(f, e))
        /\ Returned("Pow", f, Pow(f, e), FALSE, ZeroFraction, e, 0, NoNum)

OpNthRoot ==
    /\ Constructed
    /\ \E k \in Exps :
        Returned("NthRoot", f, NthRoot(f, k), FALSE, ZeroFraction, k, 0, NoNum)

OpEvaluate ==
    /\ Constructed
    /\ obs' = "Evaluate"
    /\ val' = Evaluate(f)
    /\ str' = ""
    /\ UNCHANGED <<f, pre, other, n, d, arg, op, err, ret, text, frame, mem, memPre, vcall>>

OpString ==
    /\ Constructed
    /\ obs' = "String"
    /\ str' = String(f)
    /\ val' = NoValue
    /\ UNCHANGED <<f, pre, other, n, d, arg, op, err, ret, text, frame, mem, memPre, vcall>>

Next ==
    \/ OpNew
    \/ OpNewFromNumberInt
    \/ OpNewFromNumberFloat
    \/ OpSimplify
    \/ OpMultiply
    \/ OpMultiplyInt
    \/ OpAdd
    \/ OpAddInt
    \/ OpSubtract
    \/ OpSubtractInt
    \/ OpDivide
    \/ OpDivideInt
    \/ OpPow
    \/ OpNthRoot
    \/ OpEvaluate
    \/ OpString

Spec == Init /\ [][Next]_vars

---------------------------------------------------------------------------
\* Properties.

\* Exactly one of a, b is negative.
ExactlyOneNegative(a, b) == (a < 0) # (b < 0)

\* No integer above 1 divides both components.
LowestTerms(fr) ==
    LET m == IF Abs(fr.numerator) > Abs(fr.denominator)
             THEN Abs(fr.numerator) ELSE Abs(fr.denominator)
    IN  \A k \in 2..m : ~(Abs(fr.numerator) % k = 0 /\ Abs(fr.denominator) % k = 0)

\* C1: New(n, d) returns an error when d = 0, and a Fraction with a nil error
\* when d # 0.
C1_NewFailsIffZeroDenominator ==
    op = "New" => /\ d = 0 => err
                  /\ d # 0 => ~err /\ f.denominator # 0

C1_Witness == op = "New" /\ d = 0 /\ n = 1 /\ err

\* C2 as stated: for d # 0, New(n, d) stores |n| and |d|, reported by the
\* accessors with ok = TRUE, and is negative iff exactly one of n, d is negative.
C2_Original ==
    op = "New" /\ d # 0 =>
        /\ Numerator(f) = <<Abs(n), TRUE>>
        /\ Denominator(f) = <<Abs(d), TRUE>>
        /\ f.isNegative <=> ExactlyOneNegative(n, d)

\* C2 amended: for d # 0, New(n, d) stores |n| and |d|, reported by the accessors
\* with ok = TRUE, and is negative iff n # 0 and exactly one of n, d is negative
\* (n * d < 0): New(0, d) is positive for every d.
C2_NewStoresMagnitudes ==
    op = "New" /\ d # 0 =>
        /\ Numerator(f) = <<Abs(n), TRUE>>
        /\ Denominator(f) = <<Abs(d), TRUE>>
        /\ f.isNegative <=> (n # 0 /\ ExactlyOneNegative(n, d))

C2_Witness == op = "New" /\ n = 3 /\ d = -4 /\ f = Frac(3, 4, TRUE)

\* C3: every Fraction reachable from a successful constructor by the mutating
\* operations has denominator # 0.
C3_DenominatorNeverZero == Constructed => f.denominator # 0

\* C4: every Fraction produced by a constructor and the mutating operations has
\* numerator >= 0 and denominator >= 0.
C4_SignMagnitude == Constructed => f.numerator >= 0 /\ f.denominator >= 0

\* C5: in every Fraction reachable from the constructors, numerator = 0 implies
\* that the sign flag is positive.
C5_CanonicalZero == Constructed /\ f.numerator = 0 => ~f.isNegative

\* C6: for d # 0, Evaluate on New(n, d) returns the rational n/d: with the result
\* p/q, p * d = n * q.
C6_EvaluateOfNew ==
    op = "New" /\ d # 0 /\ obs = "Evaluate" =>
        /\ val.kind = "finite"
        /\ val.q # 0
        /\ val.p * d = n * val.q

C6_Witness ==
    op = "New" /\ n = -3 /\ d = 4 /\ obs = "Evaluate" /\ val = Value("finite", -3, 4)

\* C7: with g = Gcd(numerator, denominator), Simplify returns numerator/g and
\* denominator/g when g # 0 and both unchanged when g = 0; the sign flag is
\* unchanged; for denominator # 0 the result is in lowest terms and denotes the
\* same rational value.
C7_Simplify ==
    op = "Simplify" =>
        LET g == Gcd(pre.numerator, pre.denominator)
        IN  /\ g # 0 => /\ f.numerator * g = pre.numerator
                        /\ f.denominator * g = pre.denominator
            /\ g = 0 => /\ f.numerator = pre.numerator
                        /\ f.denominator = pre.denominator
            /\ f.isNegative = pre.isNegative
            /\ pre.denominator # 0 =>
                /\ LowestTerms(f)
                /\ f.denominator # 0
                /\ f.numerator * pre.denominator = pre.numerator * f.denominator

C7_Witness == op = "Simplify" /\ pre = Frac(4, 6, TRUE) /\ f = Frac(2, 3, TRUE)

\* C8: Simplify is idempotent: simplifying the result of Simplify returns it
\* unchanged in numerator, denominator and sign.
C8_SimplifyIdempotent == op = "Simplify" => Simplify(f) = f

C8_Witness == op = "Simplify" /\ f # pre /\ Simplify(f) = f

\* The rendering C9 describes, with w = num div den and r = num mod den.
Render(numerator, denominator, isNegative) ==
    LET w == GoDiv(numerator, denominator)
        r == GoMod(numerator, denominator)
        body == IF r = 0 THEN FmtInt(w)
                ELSE IF w = 0 THEN FmtInt(r) \o "/" \o FmtInt(denominator)
                ELSE FmtInt(w) \o " " \o FmtInt(r) \o "/" \o FmtInt(denominator)
    IN  IF isNegative THEN "-" \o body ELSE body

\* C9: for every Fraction in lowest terms with denominator # 0, String returns
\* "w" when r = 0, "r/denominator" when w = 0 and "w r/denominator" otherwise,
\* prefixed with "-" iff the sign is negative.
C9_StringOfLowestTerms ==
    obs = "String" /\ f.denominator # 0 /\ LowestTerms(f) =>
        str = Render(f.numerator, f.denominator, f.isNegative)

\* The greatest common divisor of two non-negative integers, not both zero.
GreatestCommonDivisor(a, b) ==
    CHOOSE g \in 1..(a + b) :
        /\ a % g = 0 /\ b % g = 0
        /\ \A h \in (g + 1)..(a + b) : ~(a % h = 0 /\ b % h = 0)

\* A Fraction of non-negative components whose components share a factor above 1.
Unreduced(fr) ==
    /\ fr.numerator >= 0
    /\ fr.denominator > 0
    /\ GreatestCommonDivisor(fr.numerator, fr.denominator) > 1

\* C10 as stated: String renders the stored, unreduced components.
C10_Original ==
    obs = "String" /\ Unreduced(f) =>
        str = Render(f.numerator, f.denominator, f.isNegative)

\* C10 amended: String renders the components divided by their greatest common
\* divisor: New(2,4).String() is "1/2", as New(2,4).Simplify().String() is.
C10_StringSimplifies ==
    /\ obs = "String" /\ Unreduced(f) =>
        LET g == GreatestCommonDivisor(f.numerator, f.denominator)
        IN  str = Render(f.numerator \div g, f.denominator \div g, f.isNegative)
    /\ obs = "String" /\ op = "New" /\ n = 2 /\ d = 4 => str = "1/2"
    /\ obs = "String" /\ op = "Simplify" /\ pre = Frac(2, 4, FALSE) => str = "1/2"

C10_Witness ==
    obs = "String" /\ op = "New" /\ n = 2 /\ d = 4 /\ f = Frac(2, 4, FALSE) /\ str = "1/2"

\* C11: f.Multiply(g) has numerator = f.numerator * g.numerator, denominator =
\* f.denominator * g.denominator, and is negative iff exactly one of f, g is.
C11_Multiply ==
    op = "Multiply" =>
        /\ f.numerator = pre.numerator * other.numerator
        /\ f.denominator = pre.denominator * other.denominator
        /\ f.isNegative <=> (pre.isNegative # other.isNegative)

C11_Witness ==
    op = "Multiply" /\ pre = Frac(1, 2, TRUE) /\ other = Frac(1, 2, TRUE)
    /\ f = Frac(1, 4, FALSE)

\* The numerator with the sign flag applied.
SignedNumerator(fr) == IF fr.isNegative THEN -fr.numerator ELSE fr.numerator

\* C12: with c = s*f.numerator*g.denominator + o*g.numerator*f.denominator,
\* f.Add(g) has denominator = f.denominator * g.denominator, numerator = |c| and
\* negative sign iff c < 0, so that its value is value(f) + value(g).
C12_Add ==
    op = "Add" =>
        LET c == SignedNumerator(pre) * other.denominator
                 + SignedNumerator(other) * pre.denominator
        IN  /\ f.denominator = pre.denominator * other.denominator
            /\ f.numerator = Abs(c)
            /\ f.isNegative <=> c < 0

\* C13: f.Subtract(g) is the same Fraction as f.Add(g') with g' = g with its sign
\* flag flipped and its magnitudes unaltered.
C13_SubtractIsAddOfNegated ==
    op = "Subtract" =>
        f = Add(pre, Frac(other.numerator, other.denominator, ~other.isNegative))

C13_Witness ==
    op = "Subtract" /\ pre = Frac(1, 2, FALSE) /\ other = Frac(1, 2, TRUE)
    /\ f = Frac(4, 4, FALSE)

\* C14: f.Divide(g) has numerator = f.numerator * g.denominator, denominator =
\* f.denominator * g.numerator, and is negative iff exactly one of f, g is; it
\* returns this also when g is zero-valued.
C14_Divide ==
    op = "Divide" =>
        /\ f.numerator = pre.numerator * other.denominator
        /\ f.denominator = pre.denominator * other.numerator
        /\ f.isNegative <=> (pre.isNegative # other.isNegative)
        /\ ~err

C14_Witness ==
    op = "Divide" /\ pre = Frac(3, 4, TRUE) /\ other = Frac(0, 1, FALSE)
    /\ f = Frac(3, 0, TRUE) /\ ~err

\* C15: f.DivideInt(k) returns an error when k = 0, and otherwise, with a nil
\* error, what f.Divide returns for the Fraction |k|/1 carrying the sign of k.
C15_DivideInt ==
    op = "DivideInt" =>
        /\ n = 0 => err
        /\ n # 0 => ~err /\ f = Divide(pre, Frac(Abs(n), 1, n < 0))

C15_Witness ==
    op = "DivideInt" /\ pre = Frac(3, 4, FALSE) /\ n = -2 /\ f = Frac(3, 8, TRUE) /\ ~err

\* A Fraction that keeps the data model's invariants.
Valid(fr) == fr.numerator >= 0 /\ fr.denominator > 0

\* The rational values of a and b differ by the integer k: value(a) = value(b) + k.
ValueIsSum(a, b, k) ==
    /\ a.denominator # 0
    /\ SignedNumerator(a) * b.denominator
       = (SignedNumerator(b) + k * b.denominator) * a.denominator

\* C16: for every valid Fraction and every integer k, AddInt(k) yields a Fraction
\* of value value(f) + k, and SubtractInt(k) applied to it yields a Fraction of
\* the same value as f.
C16_AddIntSubtractIntRoundTrip ==
    op = "AddInt" /\ Valid(pre) =>
        /\ ValueIsSum(f, pre, n)
        /\ ValueIsSum(SubtractInt(f, n), pre, 0)

C16_Witness ==
    op = "AddInt" /\ pre = Frac(3, 2, FALSE) /\ n = 1 /\ f = Frac(5, 2, FALSE)
    /\ SubtractInt(f, n) = Frac(3, 2, FALSE)

\* base multiplied by itself exponent times.
RECURSIVE Power(_, _)
Power(base, exponent) == IF exponent = 0 THEN 1 ELSE base * Power(base, exponent - 1)

\* C17: f.Pow(e) has numerator = f.numerator^e, denominator = f.denominator^e,
\* and is negative iff f is negative and e is odd (e = 0 included).
C17_Pow ==
    op = "Pow" =>
        /\ f.numerator = Power(pre.numerator, n)
        /\ f.denominator = Power(pre.denominator, n)
        /\ f.isNegative <=> (pre.isNegative /\ n % 2 = 1)

C17_Witness ==
    op = "Pow" /\ pre = Frac(1, 2, TRUE) /\ n = 3 /\ f = Frac(1, 8, TRUE)

\* C18: for a Fraction with negative sign and an even degree (2, 4, ...),
\* NthRoot fails with an error instead of returning a root.
C18_EvenRootOfNegativeFails ==
    op = "NthRoot" /\ pre.isNegative /\ n >= 2 /\ n % 2 = 0 => err

\* value is the degree-th power of a non-negative integer.
IsExactPower(value, degree) == \E r \in 0..value : Power(r, degree) = value

\* C19: when the numerator or the denominator is not an exact degree-th power
\* of an integer (degree >= 1), NthRoot fails with an error rather than
\* returning a Fraction.
C19_NonIntegerRootFails ==
    op = "NthRoot" /\ n >= 1
    /\ ~(IsExactPower(pre.numerator, n) /\ IsExactPower(pre.denominator, n)) => err

\* C20: for numerator = a^k and denominator = b^k (a >= 0, b > 0, k >= 1), not
\* negative with even k, NthRoot(k) succeeds with numerator a and denominator b,
\* and the result raised to the k-th power equals the receiver in numerator,
\* denominator and sign.
C20_RootPowRoundTrip ==
    op = "NthRoot" /\ n >= 1 /\ Valid(pre)
    /\ IsExactPower(pre.numerator, n) /\ IsExactPower(pre.denominator, n)
    /\ ~(pre.isNegative /\ n % 2 = 0) =>
        /\ ~err
        /\ f.numerator >= 0 /\ Power(f.numerator, n) = pre.numerator
        /\ f.denominator > 0 /\ Power(f.denominator, n) = pre.denominator
        /\ Pow(f, n) = pre

\* C21: for a decimal with p >= 1 fractional digits, NewFromNumber yields the
\* digits of the value with the point removed as numerator and 10^p as
\* denominator, so that its value is the decimal; for an integer k it yields the
\* value k over denominator 1.
C21_NewFromNumber ==
    op = "NewFromNumber" =>
        /\ arg.type = "int" => SignedNumerator(f) = arg.int /\ f.denominator = 1
        /\ arg.type = "float64" /\ arg.places >= 1 =>
            /\ f.numerator = arg.mant
            /\ f.denominator = Power(10, arg.places)
            /\ SignedNumerator(f) = IF arg.neg THEN -arg.mant ELSE arg.mant

---------------------------------------------------------------------------
\* The client that calls the methods as expression statements: a.Multiply(b).

\* The state after the statement a.<name>(...): the method has a value receiver,
\* so it worked on a copy of a and its result is in ret only.
Discarded(name, result, o, a) ==
    /\ f' = f
    /\ ret' = result
    /\ pre' = f
    /\ other' = o
    /\ n' = a
    /\ d' = 0
    /\ arg' = NoNum
    /\ op' = name
    /\ err' = FALSE
    /\ obs' = "none"
    /\ val' = NoValue
    /\ str' = ""
    /\ UNCHANGED <<text, frame, mem, memPre, vcall>>

CallMultiply ==
    /\ Constructed
    /\ \E o \in Others :
        /\ InRange(Multiply(f, o))
        /\ Discarded("Multiply", Multiply(f, o), o, 0)

CallAdd ==
    /\ Constructed
    /\ \E o \in Others :
        /\ InRange(Add(f, o))
        /\ Discarded("Add", Add(f, o), o, 0)

CallDivide ==
    /\ Constructed
    /\ \E o \in Others :
        /\ InRange(Divide(f, o))
        /\ Discarded("Divide", Divide(f, o), o, 0)

CallPow ==
    /\ Constructed
    /\ InRange(f)
    /\ \E e \in Exps :
        /\ InRange(Pow(f, e))
        /\ Discarded("Pow", Pow(f, e), ZeroFraction, e)

CallAddInt ==
    /\ Constructed
    /\ \E k \in Ints :
        /\ InRange(AddInt(f, k))
        /\ Discarded("AddInt", AddInt(f, k), ZeroFraction, k)

CallSubtractInt ==
    /\ Constructed
    /\ \E k \in Ints :
        /\ InRange(SubtractInt(f, k))
        /\ Discarded("SubtractInt", SubtractInt(f, k), ZeroFraction, k)

NextDiscard ==
    \/ OpNew
    \/ OpNewFromNumberInt
    \/ OpNewFromNumberFloat
    \/ CallMultiply
    \/ CallAdd
    \/ CallDivide
    \/ CallPow
    \/ CallAddInt
    \/ CallSubtractInt

SpecDiscard == Init /\ [][NextDiscard]_vars

\* C22: after a.Multiply(b), a.Add(b), a.Divide(b), a.Pow(e), a.AddInt(k) or
\* a.SubtractInt(k) with the return value discarded, the receiver a holds the
\* result of the operation, and the value returned is the receiver.
C22_InPlaceMutation ==
    /\ op = "Multiply" => f = Multiply(pre, other) /\ ret = f
    /\ op = "Add" => f = Add(pre, other) /\ ret = f
    /\ op = "Divide" => f = Divide(pre, other) /\ ret = f
    /\ op = "Pow" => f = Pow(pre, n) /\ ret = f
    /\ op = "AddInt" => f = AddInt(pre, n) /\ ret = f
    /\ op = "SubtractInt" => f = SubtractInt(pre, n) /\ ret = f

---------------------------------------------------------------------------
\* The client that goes on with the Fraction{} a constructor returned together
\* with an error, as the receiver or as the operand of a call.

\* The caller's f is the Fraction{} that came with an error.
Failed == op # "init" /\ err

EmptySimplify ==
    /\ Failed
    /\ Returned("Simplify", f, Simplify(f), FALSE, ZeroFraction, 0, 0, NoNum)

EmptyMultiply ==
    /\ Failed
    /\ \E o \in Others : Returned("Multiply", f, Multiply(f, o), FALSE, o, 0, 0, NoNum)

EmptyAdd ==
    /\ Failed
    /\ \E o \in Others : Returned("Add", f, Add(f, o), FALSE, o, 0, 0, NoNum)

EmptyDivide ==
    /\ Failed
    /\ \E o \in Others : Returned("Divide", f, Divide(f, o), FALSE, o, 0, 0, NoNum)

MultiplyByEmpty ==
    /\ Constructed
    /\ Returned("Multiply", f, Multiply(f, ZeroFraction), FALSE, ZeroFraction, 0, 0, NoNum)

AddEmpty ==
    /\ Constructed
    /\ Returned("Add", f, Add(f, ZeroFraction), FALSE, ZeroFraction, 0, 0, NoNum)

DivideByEmpty ==
    /\ Constructed
    /\ Returned("Divide", f, Divide(f, ZeroFraction), FALSE, ZeroFraction, 0, 0, NoNum)

EmptyEvaluate ==
    /\ op # "init"
    /\ f.numerator = 0 /\ f.denominator = 0
    /\ obs' = "Evaluate"
    /\ val' = Evaluate(f)
    /\ str' = ""
    /\ UNCHANGED <<f, pre, other, n, d, arg, op, err, ret, text, frame, mem, memPre, vcall>>

EmptyString ==
    /\ op # "init"
    /\ f.numerator = 0 /\ f.denominator = 0
    /\ obs' = "String"
    /\ str' = String(f)
    /\ val' = NoValue
    /\ UNCHANGED <<f, pre, other, n, d, arg, op, err, ret, text, frame, mem, memPre, vcall>>

NextEmpty ==
    \/ OpNew
    \/ OpNewFromNumberInt
    \/ OpNewFromNumberFloat
    \/ EmptySimplify
    \/ EmptyMultiply
    \/ EmptyAdd
    \/ EmptyDivide
    \/ MultiplyByEmpty
    \/ AddEmpty
    \/ DivideByEmpty
    \/ EmptyEvaluate
    \/ EmptyString

SpecEmpty == Init /\ [][NextEmpty]_vars

\* The invalid/empty Fraction: Fraction{}, whatever its sign flag.
IsEmpty(fr) == fr.numerator = 0 /\ fr.denominator = 0

\* C23: on an invalid/empty receiver Simplify, Multiply, Add and Divide return
\* the invalid/empty state without faulting, Evaluate returns NaN and String
\* returns "NaN"; a binary operation with an invalid/empty operand on either
\* side yields the invalid/empty state.
C23_EmptyPropagates ==
    /\ op = "Simplify" /\ IsEmpty(pre) => IsEmpty(f)
    /\ op \in {"Multiply", "Add", "Divide"} /\ (IsEmpty(pre) \/ IsEmpty(other)) =>
        IsEmpty(f)
    /\ obs = "Evaluate" /\ IsEmpty(f) => val.kind = "NaN"
    /\ obs = "String" /\ IsEmpty(f) => str = "NaN"

---------------------------------------------------------------------------
\* NewFromString: the grammar ^\s*(NUM)\s*/\s*(NUM)\s*$ with
\* NUM = [+-]?(\d+\.?\d*|\.\d+), matched from left to right.  A text is a
\* sequence of characters; a position past the end, or 0, is no match.

Digits == {"0", "1", "2", "3", "4", "5", "6", "7", "8", "9"}

CharAt(s, i) == IF i \in 1..Len(s) THEN s[i] ELSE ""

\* SkipSpaces that skips nothing.
SkipSpaces_None(s, i) == i

\* \s*: the first position from i on that holds no white space.
RECURSIVE SkipSpaces(_, _)
SkipSpaces(s, i) == IF CharAt(s, i) = " " THEN SkipSpaces(s, i + 1) ELSE i

\* \d*: the first position from i on that holds no digit.
RECURSIVE ScanDigits(_, _)
ScanDigits(s, i) == IF CharAt(s, i) \in Digits THEN ScanDigits(s, i + 1) ELSE i

\* NUM at position i: the position after it, 0 when there is none.
ScanNum(s, i) ==
    LET j0 == IF CharAt(s, i) \in {"+", "-"} THEN i + 1 ELSE i
        j1 == ScanDigits(s, j0)
    IN  IF j1 > j0
        THEN ScanDigits(s, IF CharAt(s, j1) = "." THEN j1 + 1 ELSE j1)
        ELSE IF CharAt(s, j0) = "." /\ ScanDigits(s, j0 + 1) > j0 + 1
             THEN ScanDigits(s, j0 + 1)
             ELSE 0

DigitOf(c) == CHOOSE k \in 0..9 : DigitChars[k + 1] = c

RECURSIVE DigitsValue(_)
DigitsValue(chars) ==
    IF chars = <<>> THEN 0
    ELSE DigitsValue(SubSeq(chars, 1, Len(chars) - 1)) * 10 + DigitOf(chars[Len(chars)])

Unsigned(chars) == IF CharAt(chars, 1) \in {"+", "-"} THEN Tail(chars) ELSE chars

\* The integer an integer literal denotes.
Atoi(chars) ==
    IF CharAt(chars, 1) = "-" THEN -DigitsValue(Unsigned(chars))
    ELSE DigitsValue(Unsigned(chars))

\* The float64 a decimal literal denotes, with no trailing zero among its
\* fractional digits.
RECURSIVE Shortest(_, _, _)
Shortest(neg, mant, places) ==
    IF places > 0 /\ mant % 10 = 0 THEN Shortest(neg, mant \div 10, places - 1)
    ELSE FloatNum(neg, mant, places)

ParseFloat(chars) ==
    LET body == Unsigned(chars)
        i == IndexByte(body, ".")
        whole == IF i >= 0 THEN SubSeq(body, 1, i) ELSE body
        fraction == IF i >= 0 THEN SubSeq(body, i + 2, Len(body)) ELSE <<>>
    IN  Shortest(CharAt(chars, 1) = "-", DigitsValue(whole \o fraction), Len(fraction))

NewFromString(s) ==
    LET i1 == SkipSpaces(s, 1)
        e1 == ScanNum(s, i1)
        i2 == SkipSpaces(s, e1)
        i3 == SkipSpaces(s, i2 + 1)
        e2 == ScanNum(s, i3)
        i4 == SkipSpaces(s, e2)
        num1 == SubSeq(s, i1, e1 - 1)
        num2 == SubSeq(s, i3, e2 - 1)
    IN  IF e1 = 0 \/ CharAt(s, i2) # "/" \/ e2 = 0 \/ i4 # Len(s) + 1
        THEN Ret(ZeroFraction, TRUE)
        ELSE IF IndexByte(num1, ".") < 0 /\ IndexByte(num2, ".") < 0
             THEN New(Atoi(num1), Atoi(num2))
             ELSE Ret(Simplify(Divide(NewFromNumber(ParseFloat(num1)),
                                      NewFromNumber(ParseFloat(num2)))), FALSE)

\* The characters and the length of the texts a client passes.
MaxText == 5

Alphabet == {" ", "+", "-", "0", "1", "/", ".", "x"}

Texts == UNION {[1..len -> Alphabet] : len \in 0..MaxText}

InitParse ==
    /\ InitFraction
    /\ text \in Texts
    /\ frame = NoFrame
    /\ InitVector

OpNewFromString ==
    /\ op = "init"
    /\ Returned("NewFromString", ZeroFraction, NewFromString(text).frac,
                NewFromString(text).err, ZeroFraction, 0, 0, NoNum)

NextParse == OpNewFromString

SpecParse == InitParse /\ [][NextParse]_vars

\* A text without the white space at its ends.
Trim(s) ==
    LET ink == {i \in 1..Len(s) : s[i] # " "}
    IN  IF ink = {} THEN <<>>
        ELSE SubSeq(s, CHOOSE i \in ink : \A j \in ink : i <= j,
                       CHOOSE i \in ink : \A j \in ink : i >= j)

\* An optionally signed decimal integer literal.
IsIntegerLiteral(s) ==
    /\ Unsigned(s) # <<>>
    /\ \A i \in 1..Len(Unsigned(s)) : Unsigned(s)[i] \in Digits

\* NUM without exponent: digits with at most one point and at least one digit.
IsNumberLiteral(s) ==
    LET body == Unsigned(s)
    IN  /\ \A i \in 1..Len(body) : body[i] \in Digits \cup {"."}
        /\ Cardinality({i \in 1..Len(body) : body[i] = "."}) <= 1
        /\ \E i \in 1..Len(body) : body[i] \in Digits

\* The integer whose decimal text, padded with leading zeros, is the literal.
LiteralValue(s) ==
    LET body == Unsigned(s)
        k == CHOOSE k \in 0..(Power(10, Len(body)) - 1) :
                 PadZeros(ItoaChars(k), Len(body)) = body
    IN  IF s[1] = "-" THEN -k ELSE k

---------------------------------------------------------------------------
\* The native int, IntBits wide: arithmetic wraps around.

IntBits == 6

IntMin == -(2 ^ (IntBits - 1))

IntMax == 2 ^ (IntBits - 1) - 1

Wrap(x) == ((x - IntMin) % (2 ^ IntBits)) + IntMin

---------------------------------------------------------------------------
\* Gcd and PowInt of package wbmath, run one loop iteration at a time.

\* The loop body of Gcd with b assigned after a instead of together with it.
GcdBody_Sequential(a, b) == [a |-> b, b |-> GoMod(b, b)]

\* a, b = b, a%b
GcdBody(a, b) == [a |-> b, b |-> GoMod(a, b)]

\* The loop body of PowInt multiplying whatever the exponent's low bit is.
PowIntBody_NoParityTest(result, base, exponent) ==
    [result |-> Wrap(result * base),
     exponent |-> exponent \div 2,
     base |-> IF exponent \div 2 # 0 THEN Wrap(base * base) ELSE base]

\* One iteration of PowInt's loop: exponent&1, exponent >>= 1, base *= base.
PowIntBody(result, base, exponent) ==
    [result |-> IF exponent % 2 # 0 THEN Wrap(result * base) ELSE result,
     exponent |-> exponent \div 2,
     base |-> IF exponent \div 2 # 0 THEN Wrap(base * base) ELSE base]

\* The arguments of the calls.
MaxGcdArg == 12

MaxBase == 3

MaxPower == 6

GcdFrame(a, b) ==
    [NoFrame EXCEPT !.fn = "Gcd", !.args = <<a, b>>, !.a = a, !.b = b, !.pc = "entry"]

PowIntFrame(base, exponent) ==
    [NoFrame EXCEPT !.fn = "PowInt", !.args = <<base, exponent>>, !.base = base,
                    !.exponent = exponent, !.result = 1, !.pc = "loop"]

InitMath ==
    /\ InitFraction
    /\ text = <<>>
    /\ frame \in {GcdFrame(a, b) : a \in -MaxGcdArg..MaxGcdArg, b \in -MaxGcdArg..MaxGcdArg}
                 \cup {PowIntFrame(base, exponent) :
                           base \in -MaxBase..MaxBase, exponent \in 0..MaxPower}
    /\ InitVector

\* if a == 0 || b == 0 { return a + b }
GcdEntry ==
    /\ frame.fn = "Gcd" /\ frame.pc = "entry"
    /\ frame' = IF frame.a = 0 \/ frame.b = 0
                 THEN [frame EXCEPT !.result = frame.a + frame.b, !.pc = "done"]
                 ELSE [frame EXCEPT !.pc = "loop"]
    /\ UNCHANGED <<fracVars, text, mem, memPre, vcall>>

GcdIterate ==
    /\ frame.fn = "Gcd" /\ frame.pc = "loop"
    /\ frame.b # 0
    /\ frame' = [frame EXCEPT !.a = GcdBody(frame.a, frame.b).a,
                               !.b = GcdBody(frame.a, frame.b).b,
                               !.steps = @ + 1]
    /\ UNCHANGED <<fracVars, text, mem, memPre, vcall>>

GcdReturn ==
    /\ frame.fn = "Gcd" /\ frame.pc = "loop"
    /\ frame.b = 0
    /\ frame' = [frame EXCEPT !.result = frame.a, !.pc = "done"]
    /\ UNCHANGED <<fracVars, text, mem, memPre, vcall>>

PowIntIterate ==
    /\ frame.fn = "PowInt" /\ frame.pc = "loop"
    /\ frame.exponent > 0
    /\ LET next == PowIntBody(frame.result, frame.base, frame.exponent)
       IN  frame' = [frame EXCEPT !.result = next.result, !.base = next.base,
                                  !.exponent = next.exponent, !.steps = @ + 1]
    /\ UNCHANGED <<fracVars, text, mem, memPre, vcall>>

PowIntReturn ==
    /\ frame.fn = "PowInt" /\ frame.pc = "loop"
    /\ ~(frame.exponent > 0)
    /\ frame' = [frame EXCEPT !.pc = "done"]
    /\ UNCHANGED <<fracVars, text, mem, memPre, vcall>>

NextMath ==
    \/ GcdEntry
    \/ GcdIterate
    \/ GcdReturn
    \/ PowIntIterate
    \/ PowIntReturn

\* A running call goes on running: the loops are sequential code.
SpecMath == InitMath /\ [][NextMath]_vars /\ WF_vars(NextMath)

\* What a finished Gcd call returned for non-negative a, b.
GcdResult ==
    frame.fn = "Gcd" /\ frame.pc = "done" /\ frame.args[1] >= 0 /\ frame.args[2] >= 0 =>
        LET a == frame.args[1]
            b == frame.args[2]
        IN  /\ a = 0 => frame.result = b
            /\ b = 0 => frame.result = a
            /\ a > 0 /\ b > 0 => frame.result = GreatestCommonDivisor(a, b)

\* C25: for non-negative a, b, Gcd(a, b) returns b when a = 0, a when b = 0 and
\* otherwise the largest positive integer dividing both; the loop terminates
\* for every input.
C25_Gcd ==
    /\ []GcdResult
    /\ (frame.fn = "Gcd") ~> (frame.fn = "Gcd" /\ frame.pc = "done")

C25_Witness ==
    frame.fn = "Gcd" /\ frame.pc = "done" /\ frame.args = <<12, 8>>
    /\ frame.result = 4 /\ frame.steps = 2

\* The number of bits of e, 0 for e = 0.
RECURSIVE BitLength(_)
BitLength(e) == IF e = 0 THEN 0 ELSE 1 + BitLength(e \div 2)

\* What a PowInt call returned when base^e is within the int range, and how
\* many iterations it has made.
PowIntResult ==
    frame.fn = "PowInt" =>
        LET base == frame.args[1]
            e == frame.args[2]
        IN  /\ frame.steps <= BitLength(e)
            /\ frame.pc = "done" /\ Power(base, e) \in IntMin..IntMax =>
                /\ frame.result = Power(base, e)
                /\ e = 0 => frame.result = 1

\* C26: for every base and unsigned exponent e with base^e within range,
\* PowInt(base, e) is base multiplied by itself e times, PowInt(base, 0) = 1,
\* and the loop terminates after at most bit-length(e) iterations.
C26_PowInt ==
    /\ []PowIntResult
    /\ (frame.fn = "PowInt") ~> (frame.fn = "PowInt" /\ frame.pc = "done")

C26_Witness ==
    frame.fn = "PowInt" /\ frame.pc = "done" /\ frame.args = <<-2, 5>>
    /\ frame.result = -32 /\ frame.steps = 3

---------------------------------------------------------------------------
\* New over the whole range of the native int.

\* New as the machine computes it: -value and numerator*denominator wrap around.
NewWrapping(numerator, denominator) ==
    IF denominator = 0
    THEN Ret(ZeroFraction, TRUE)
    ELSE Ret(Frac(Wrap(Abs(numerator)), Wrap(Abs(denominator)),
                  Wrap(numerator * denominator) < 0), FALSE)

OpNewWrapping ==
    /\ op = "init"
    /\ \E a \in IntMin..IntMax, b \in IntMin..IntMax :
        Returned("New", ZeroFraction, NewWrapping(a, b).frac, NewWrapping(a, b).err,
                 ZeroFraction, a, b, NoNum)

NextWrap == OpNewWrapping

SpecWrap == Init /\ [][NextWrap]_vars

\* C29: with wrap-around ints, for all n # 0 and d # 0, products n*d that
\* overflow included, New(n, d) is negative iff exactly one of n, d is negative.
C29_SignUnderOverflow ==
    op = "New" /\ n # 0 /\ d # 0 => (f.isNegative <=> ExactlyOneNegative(n, d))

---------------------------------------------------------------------------
\* package vector.  A Vector is a slice: the methods' value receivers copy the
\* slice header, and the elements they write are those of the caller's
\* backing array.  m holds the backing arrays by the name of the client's
\* variable (v, other); r is the receiver of a call and o its Vector argument,
\* which may be the receiver itself.  Elements are int.

\* v[index] op= other[index-offset]
Combine(name, x, y) ==
    CASE name = "add" -> x + y
      [] name = "subtract" -> x - y
      [] name = "multiply" -> x * y
      [] name = "divide" -> GoDiv(x, y)
      [] OTHER -> x

\* The loop of operation reading other[index] instead of other[index-offset].
RECURSIVE operationLoop_Unshifted(_, _, _, _, _, _)
operationLoop_Unshifted(m, r, o, offset, index, name) ==
    IF index < Len(m[r]) /\ ~(index >= Len(m[o]))
    THEN IF name = "divide" /\ m[o][index + 1] = 0
         THEN [mem |-> m, panic |-> TRUE]
         ELSE operationLoop_Unshifted(
                  [m EXCEPT ![r][index + 1] = Combine(name, m[r][index + 1], m[o][index + 1])],
                  r, o, offset, index + 1, name)
    ELSE [mem |-> m, panic |-> FALSE]

\* The loop of operation from index on: the arrays when it ends, and whether it
\* ended in the panic of an integer division by zero.
RECURSIVE operationLoop(_, _, _, _, _, _)
operationLoop(m, r, o, offset, index, name) ==
    IF index < Len(m[r]) /\ ~(index - offset >= Len(m[o]))
    THEN IF name = "divide" /\ m[o][index - offset + 1] = 0
         THEN [mem |-> m, panic |-> TRUE]
         ELSE operationLoop(
                  [m EXCEPT ![r][index + 1] =
                       Combine(name, m[r][index + 1], m[o][index - offset + 1])],
                  r, o, offset, index + 1, name)
    ELSE [mem |-> m, panic |-> FALSE]

operation(m, r, o, offset, name) ==
    IF offset < Len(m[r]) /\ offset >= 0
    THEN operationLoop(m, r, o, offset, offset, name)
    ELSE [mem |-> m, panic |-> FALSE]

VectorAdd(m, r, o, offset) == operation(m, r, o, offset, "add")

VectorMultiply(m, r, o, offset) == operation(m, r, o, offset, "multiply")

VectorDivide(m, r, o, offset) == operation(m, r, o, offset, "divide")

\* Scale writes r's elements in place and returns r.
VectorScale(m, r, factor) ==
    [m EXCEPT ![r] = [i \in 1..Len(m[r]) |-> m[r][i] * factor]]

\* return v.Add(other.Scale(T(-1)), offset)
VectorSubtract(m, r, o, offset) == VectorAdd(VectorScale(m, o, -1), r, o, offset)

RECURSIVE ProductLoop(_, _, _)
ProductLoop(elements, i, product) ==
    IF i < Len(elements) THEN ProductLoop(elements, i + 1, product * elements[i + 1])
    ELSE product

\* var product T = 0, then the loop.
VectorProduct(m, r) == ProductLoop(m[r], 0, 0)

\* The Vectors the client makes with vector.New, and the offsets it passes.
MaxLen == 2

MaxElem == 1

Vectors == UNION {[1..len -> -MaxElem..MaxElem] : len \in 0..MaxLen}

Offsets == -1..MaxLen

\* The client has made v and other with vector.New: two backing arrays.
InitVectors ==
    /\ InitFraction
    /\ text = <<>>
    /\ frame = NoFrame
    /\ mem \in {[v |-> a, other |-> b] : a \in Vectors, b \in Vectors}
    /\ memPre = mem
    /\ vcall = NoVCall

\* The client makes one call on the Vectors it has made: every call on every
\* pair of Vectors is a call from an initial state.
CanCall == vcall.name = "none"

\* The state after v.<name>(o, offset) with the outcome result.
VCalled(name, o, offset, result) ==
    /\ mem' = result.mem
    /\ memPre' = mem
    /\ vcall' = [name |-> name, arg |-> o, offset |-> offset, ret |-> "v",
                 product |-> 0, panic |-> result.panic]
    /\ UNCHANGED <<fracVars, text, frame>>

OpVectorAdd ==
    /\ CanCall
    /\ \E o \in {"v", "other"}, offset \in Offsets :
        VCalled("Add", o, offset, VectorAdd(mem, "v", o, offset))

OpVectorSubtract ==
    /\ CanCall
    /\ \E o \in {"v", "other"}, offset \in Offsets :
        VCalled("Subtract", o, offset, VectorSubtract(mem, "v", o, offset))

OpVectorMultiply ==
    /\ CanCall
    /\ \E o \in {"v", "other"}, offset \in Offsets :
        VCalled("Multiply", o, offset, VectorMultiply(mem, "v", o, offset))

OpVectorDivide ==
    /\ CanCall
    /\ \E o \in {"v", "other"}, offset \in Offsets :
        VCalled("Divide", o, offset, VectorDivide(mem, "v", o, offset))

OpVectorProduct ==
    /\ CanCall
    /\ vcall' = [name |-> "Product", arg |-> "none", offset |-> 0, ret |-> "none",
                 product |-> VectorProduct(mem, "v"), panic |-> FALSE]
    /\ memPre' = mem
    /\ UNCHANGED <<mem, fracVars, text, frame>>

NextVector ==
    \/ OpVectorAdd
    \/ OpVectorSubtract
    \/ OpVectorMultiply
    \/ OpVectorDivide
    \/ OpVectorProduct

SpecVector == InitVectors /\ [][NextVector]_vars

\* The product of the elements of a sequence.
RECURSIVE ProductOf(_)
ProductOf(elements) ==
    IF elements = <<>> THEN 1 ELSE Head(elements) * ProductOf(Tail(elements))

\* C27: for every Vector v (of at least one element), Product() returns the
\* product of all elements of v.
C27_Product ==
    vcall.name = "Product" /\ Len(mem.v) >= 1 => vcall.product = ProductOf(mem.v)

\* v[i] after the call is v[i] combined with other[i-offset] on the overlap
\* offset <= i < len(v), i-offset < len(other) with 0 <= offset, and v[i]
\* elsewhere; len(v) is unchanged.
OverlapCombined(name) ==
    /\ Len(mem.v) = Len(memPre.v)
    /\ \A i \in 0..(Len(memPre.v) - 1) :
           mem.v[i + 1] =
               IF /\ vcall.offset >= 0
                  /\ vcall.offset <= i
                  /\ i - vcall.offset < Len(memPre.other)
               THEN CASE name = "Add" -> memPre.v[i + 1] + memPre.other[i - vcall.offset + 1]
                      [] name = "Subtract" ->
                             memPre.v[i + 1] - memPre.other[i - vcall.offset + 1]
                      [] name = "Multiply" ->
                             memPre.v[i + 1] * memPre.other[i - vcall.offset + 1]
                      [] name = "Divide" ->
                             GoDiv(memPre.v[i + 1], memPre.other[i - vcall.offset + 1])
               ELSE memPre.v[i + 1]

C30_SubtractFrame ==
    vcall.name = "Subtract" /\ vcall.arg = "other"
    /\ vcall.offset >= 0 /\ vcall.offset < Len(memPre.v) =>
        /\ mem.other = memPre.other
        /\ OverlapCombined("Subtract")

====
